---- MODULE Spec2Model ----
(***************************************************************************)
(* Model of scripts/copy-for-llm.js: the "Copy for LLM" button.            *)
(*                                                                         *)
(* The page is a heap of DOM nodes (dom), each node a record with its      *)
(* child list; extractPageText is computed on that heap exactly as the     *)
(* script does it (root selection, cloneNode, reveal, strip, title, walk,  *)
(* post-processing).  A string is a sequence of tokens: "\n", " " and "\t" *)
(* are the white-space characters, every other token stands for a piece of *)
(* text without white space.                                               *)
(***************************************************************************)
EXTENDS Integers, Sequences, FiniteSets, TLC

\* ------------------------------------------------------------------ strings

WS == {"\n", " ", "\t"}

NL == "\n"

\* the backtick character, and the three-backtick code fence
Backtick == "<backtick>"

Fence == "<fence>"

RECURSIVE TrimLeft(_)
TrimLeft(s) ==
    IF s # <<>> /\ Head(s) \in WS THEN TrimLeft(Tail(s)) ELSE s

RECURSIVE TrimRight(_)
TrimRight(s) ==
    IF s # <<>> /\ s[Len(s)] \in WS THEN TrimRight(SubSeq(s, 1, Len(s) - 1)) ELSE s

\* String.prototype.trim
Trim(s) == TrimRight(TrimLeft(s))

\* Array.prototype.join
RECURSIVE Join(_, _)
Join(parts, sep) ==
    IF parts = <<>> THEN <<>>
    ELSE IF Len(parts) = 1 THEN parts[1]
    ELSE parts[1] \o sep \o Join(Tail(parts), sep)

\* String.prototype.split("\n")
RECURSIVE SplitLines(_, _)
SplitLines(s, cur) ==
    IF s = <<>> THEN <<cur>>
    ELSE IF Head(s) = NL THEN <<cur>> \o SplitLines(Tail(s), <<>>)
    ELSE SplitLines(Tail(s), Append(cur, Head(s)))

\* length of the run of "\n" at the head of s
RECURSIVE NewlineRun(_)
NewlineRun(s) ==
    IF s # <<>> /\ Head(s) = NL THEN 1 + NewlineRun(Tail(s)) ELSE 0

\* "#".repeat(n)
RECURSIVE Repeat(_, _)
Repeat(c, n) == IF n <= 0 THEN <<>> ELSE <<c>> \o Repeat(c, n - 1)

\* s with every run of n or more "\n" replaced by "\n\n"
RECURSIVE CollapseRuns(_, _)
CollapseRuns(s, n) ==
    IF s = <<>> THEN <<>>
    ELSE LET r == NewlineRun(s) IN
         IF r >= n THEN <<NL, NL>> \o CollapseRuns(SubSeq(s, r + 1, Len(s)), n)
         ELSE IF r >= 1 THEN Repeat(NL, r) \o CollapseRuns(SubSeq(s, r + 1, Len(s)), n)
         ELSE <<Head(s)>> \o CollapseRuns(Tail(s), n)

CollapseNewlines_FourOrMore(s) == CollapseRuns(s, 4)

\* .replace(/\n{3,}/g, "\n\n")
CollapseNewlines(s) ==
    CollapseRuns(s, 3)

\* ------------------------------------------------------------------ DOM heap

NoNode == 0

BUTTON_ID == "copy-for-llm-btn"

\* the node that stands for the document element (html/body)
DocRoot == 1

\* a node record; attributes that are absent are "" / FALSE / {}
Element(tag) ==
    [nodeType |-> "element", tag |-> tag, data |-> <<>>, kids |-> <<>>,
     ariaHidden |-> "", hidden |-> FALSE, display |-> FALSE, role |-> "",
     id |-> "", testid |-> "", classList |-> {}, href |-> <<>>]

TextNode(data) ==
    [Element("") EXCEPT !.nodeType = "text", !.data = data]

Range(s) == {s[i] : i \in DOMAIN s}

IsElement(h, n) == h[n].nodeType = "element"

\* node.parentElement (NoNode when detached)
ParentOf(h, n) ==
    IF \E p \in DOMAIN h : n \in Range(h[p].kids)
    THEN CHOOSE p \in DOMAIN h : n \in Range(h[p].kids)
    ELSE NoNode

\* the descendants of n in document order, n excluded
RECURSIVE Descendants(_, _), DescendantsOfList(_, _)
Descendants(h, n) ==
    DescendantsOfList(h, h[n].kids)
DescendantsOfList(h, ks) ==
    IF ks = <<>> THEN <<>>
    ELSE <<Head(ks)>> \o Descendants(h, Head(ks)) \o DescendantsOfList(h, Tail(ks))

\* node.children: the element children
Children(h, n) ==
    SelectSeq(h[n].kids, LAMBDA k : IsElement(h, k))

\* node.textContent
RECURSIVE TextContent(_, _), TextOfList(_, _)
TextContent(h, n) ==
    IF h[n].nodeType = "text" THEN h[n].data ELSE TextOfList(h, h[n].kids)
TextOfList(h, ks) ==
    IF ks = <<>> THEN <<>> ELSE TextContent(h, Head(ks)) \o TextOfList(h, Tail(ks))

\* the selectors the script uses, each a predicate on one element
Matches(h, n, sel) ==
    /\ IsElement(h, n)
    /\ CASE sel = "[role=tabpanel]" -> h[n].role = "tabpanel"
         [] sel = "[aria-hidden=true]" -> h[n].ariaHidden = "true"
         [] sel = ".copy-for-llm-btn-wrapper" -> "copy-for-llm-btn-wrapper" \in h[n].classList
         [] sel = ".sr-only" -> "sr-only" \in h[n].classList
         [] sel = "[data-testid=table-of-contents]" -> h[n].testid = "table-of-contents"
         [] sel = "#content-area" -> h[n].id = "content-area"
         [] sel = "th, td" -> h[n].tag \in {"th", "td"}
         [] OTHER -> h[n].tag = sel

\* element.querySelectorAll(sel): descendants only
QuerySelectorAll(h, n, sel) ==
    SelectSeq(Descendants(h, n), LAMBDA d : Matches(h, d, sel))

\* element.querySelector(sel)
QuerySelector(h, n, sel) ==
    LET all == QuerySelectorAll(h, n, sel) IN
    IF all = <<>> THEN NoNode ELSE all[1]

\* document.querySelector(sel): every element of the document
DocQuerySelector(h, sel) ==
    LET all == SelectSeq(<<DocRoot>> \o Descendants(h, DocRoot), LAMBDA d : Matches(h, d, sel)) IN
    IF all = <<>> THEN NoNode ELSE all[1]

\* document.querySelector("A h1"): the first h1 with an ancestor A
DocQueryInside(h, outer, sel) ==
    LET all == SelectSeq(<<DocRoot>> \o Descendants(h, DocRoot),
                         LAMBDA d : /\ Matches(h, d, sel)
                                    /\ \E a \in Range(<<DocRoot>> \o Descendants(h, DocRoot)) :
                                           /\ Matches(h, a, outer)
                                           /\ d \in Range(Descendants(h, a))) IN
    IF all = <<>> THEN NoNode ELSE all[1]

MaxId(h) == IF DOMAIN h = {} THEN 0 ELSE CHOOSE m \in DOMAIN h : \A i \in DOMAIN h : i <= m

\* el.remove()
RemoveNode(h, el) ==
    LET p == ParentOf(h, el) IN
    IF p = NoNode THEN h
    ELSE [h EXCEPT ![p].kids = SelectSeq(@, LAMBDA k : k # el)]


\* ------------------------------------------------------------------ extractPageText

\* root = article || #content-area || main
QueryRoot_BodyFallback(h) ==
    IF DocQuerySelector(h, "article") # NoNode THEN DocQuerySelector(h, "article")
    ELSE IF DocQuerySelector(h, "#content-area") # NoNode THEN DocQuerySelector(h, "#content-area")
    ELSE IF DocQuerySelector(h, "main") # NoNode THEN DocQuerySelector(h, "main")
    ELSE DocQuerySelector(h, "body")

QueryRoot(h) ==
    IF DocQuerySelector(h, "article") # NoNode THEN DocQuerySelector(h, "article")
    ELSE IF DocQuerySelector(h, "#content-area") # NoNode THEN DocQuerySelector(h, "#content-area")
    ELSE DocQuerySelector(h, "main")

IndexOf(s, x) == CHOOSE i \in DOMAIN s : s[i] = x

CloneNode_Alias(h, root) == [h |-> h, id |-> root]

\* root.cloneNode(true): a detached deep copy made of fresh nodes
CloneNode(h, root) ==
    LET ds == <<root>> \o Descendants(h, root)
        base == MaxId(h)
        copy(i) == [h[ds[i]] EXCEPT !.kids = [j \in DOMAIN h[ds[i]].kids |->
                                                 base + IndexOf(ds, h[ds[i]].kids[j])]]
    IN [h |-> h @@ [n \in (base + 1)..(base + Len(ds)) |-> copy(n - base)],
        id |-> base + 1]

\* removeAttribute("aria-hidden"), removeAttribute("hidden"), style.removeProperty("display")
Unhide(h, el) ==
    [h EXCEPT ![el].ariaHidden = "", ![el].hidden = FALSE, ![el].display = FALSE]

\* 1. every role="tabpanel" panel is revealed
RECURSIVE RevealPanels(_, _)
RevealPanels(h, panels) ==
    IF panels = <<>> THEN h
    ELSE RevealPanels(Unhide(h, Head(panels)), Tail(panels))

ContainsCode_Never(h, el) == FALSE

\* el.querySelector("pre") || el.tagName.toLowerCase() === "pre"
ContainsCode(h, el) ==
    QuerySelector(h, el, "pre") # NoNode \/ h[el].tag = "pre"

\* 2. every other aria-hidden element that holds a code block is revealed
RECURSIVE RevealHiddenCode(_, _)
RevealHiddenCode(h, els) ==
    IF els = <<>> THEN h
    ELSE RevealHiddenCode(IF ContainsCode(h, Head(els)) THEN Unhide(h, Head(els)) ELSE h,
                          Tail(els))

RevealPhase(h, clone) ==
    LET h1 == RevealPanels(h, QuerySelectorAll(h, clone, "[role=tabpanel]"))
    IN RevealHiddenCode(h1, QuerySelectorAll(h1, clone, "[aria-hidden=true]"))

selectors ==
    <<"nav", "header", "footer", "[aria-hidden=true]", ".copy-for-llm-btn-wrapper",
      "button", "svg", ".sr-only", "[data-testid=table-of-contents]">>

RECURSIVE RemoveAll(_, _)
RemoveAll(h, els) ==
    IF els = <<>> THEN h ELSE RemoveAll(RemoveNode(h, Head(els)), Tail(els))

\* selectors.forEach(sel => clone.querySelectorAll(sel).forEach(el => el.remove()))
RECURSIVE StripSelectors(_, _, _)
StripSelectors(h, clone, sels) ==
    IF sels = <<>> THEN h
    ELSE StripSelectors(RemoveAll(h, QuerySelectorAll(h, clone, Head(sels))), clone, Tail(sels))

StripPhase(h, clone) ==
    StripSelectors(h, clone, selectors)

\* titleEl = "article h1" || "main h1" || "h1", looked up in the live document
QueryTitle(h) ==
    IF DocQueryInside(h, "article", "h1") # NoNode THEN DocQueryInside(h, "article", "h1")
    ELSE IF DocQueryInside(h, "main", "h1") # NoNode THEN DocQueryInside(h, "main", "h1")
    ELSE DocQuerySelector(h, "h1")

TitleLines(h) ==
    IF QueryTitle(h) # NoNode
    THEN << <<"#", " ">> \o Trim(TextContent(h, QueryTitle(h))), <<>> >>
    ELSE <<>>

\* parseInt(tag[1], 10) of h2..h6
HeadingLevel(tag) ==
    CASE tag = "h2" -> 2 [] tag = "h3" -> 3 [] tag = "h4" -> 4
      [] tag = "h5" -> 5 [] tag = "h6" -> 6 [] OTHER -> 0

\* cls.match(/language-(\w+)/) on the class names the pages use
LanguageOf(classList) ==
    IF "language-python" \in classList THEN <<"python">>
    ELSE IF "language-js" \in classList THEN <<"js">>
    ELSE <<>>

\* "| " + vals.join(" | ") + " |"
TableLine(vals) ==
    <<"|", " ">> \o Join(vals, <<" ", "|", " ">>) \o <<" ", "|">>

RECURSIVE TableRows(_, _, _)
TableRows(h, rows, ri) ==
    IF rows = <<>> THEN <<>>
    ELSE LET cells == QuerySelectorAll(h, Head(rows), "th, td")
             vals == [i \in DOMAIN cells |-> Trim(TextContent(h, cells[i]))]
         IN <<TableLine(vals)>>
            \o (IF ri = 0 THEN <<TableLine([i \in DOMAIN vals |-> <<"---">>])>> ELSE <<>>)
            \o TableRows(h, Tail(rows), ri + 1)

\* the lines walk(node, depth) pushes, appended to lines
RECURSIVE walk(_, _, _, _), walkChildNodes(_, _, _, _)
walk(h, node, depth, lines) ==
    LET tag == h[node].tag
        text == Trim(TextContent(h, node))
        parent == ParentOf(h, node)
    IN
    IF h[node].nodeType = "text"
    THEN IF Trim(h[node].data) # <<>> THEN Append(lines, h[node].data) ELSE lines
    ELSE IF h[node].nodeType # "element" THEN lines
    ELSE IF HeadingLevel(tag) # 0
    THEN lines \o << <<>>, Repeat("#", HeadingLevel(tag)) \o <<" ">> \o text, <<>> >>
    ELSE IF tag = "pre"
    THEN LET codeEl == QuerySelector(h, node, "code")
             lang == IF codeEl # NoNode THEN LanguageOf(h[codeEl].classList) ELSE <<>>
             code == Trim(TextContent(h, IF codeEl # NoNode THEN codeEl ELSE node))
         IN lines \o << <<>>, <<Fence>> \o lang, code, <<Fence>>, <<>> >>
    ELSE IF tag = "code" /\ parent # NoNode /\ h[parent].tag # "pre"
    THEN Append(lines, <<Backtick>> \o text \o <<Backtick>>)
    ELSE IF tag = "p"
    THEN Append(walkChildNodes(h, h[node].kids, depth, Append(lines, <<>>)), <<>>)
    ELSE IF tag = "li"
    THEN LET bullet == IF parent # NoNode /\ h[parent].tag = "ol"
                       THEN <<ToString(IndexOf(Children(h, parent), node)), ".", " ">>
                       ELSE <<"-", " ">>
         IN Append(lines, bullet \o text)
    ELSE IF tag = "table"
    THEN Append(lines \o TableRows(h, QuerySelectorAll(h, node, "tr"), 0), <<>>)
    ELSE IF tag = "blockquote"
    THEN LET ls == SplitLines(text, <<>>)
             bqText == Join([i \in DOMAIN ls |-> <<">", " ">> \o ls[i]], <<NL>>)
         IN lines \o << <<>>, bqText, <<>> >>
    ELSE IF tag \in {"strong", "b"}
    THEN Append(lines, <<"**">> \o text \o <<"**">>)
    ELSE IF tag = "a"
    THEN Append(lines, <<"[">> \o text \o <<"]", "(">> \o h[node].href \o <<")">>)
    ELSE walkChildNodes(h, h[node].kids, depth + 1, lines)
walkChildNodes(h, ks, depth, lines) ==
    IF ks = <<>> THEN lines
    ELSE walkChildNodes(h, Tail(ks), depth, walk(h, Head(ks), depth, lines))

\* the test of the top-level loop: child.tagName.toLowerCase() === "h1"
SkipsChild(h, child) ==
    h[child].tag = "h1"

\* for (k ...) { if (h1) continue; walk(child, 0); }
RECURSIVE WalkTopLevel(_, _, _)
WalkTopLevel(h, children, lines) ==
    IF children = <<>> THEN lines
    ELSE WalkTopLevel(h, Tail(children),
                      IF SkipsChild(h, Head(children)) THEN lines
                      ELSE walk(h, Head(children), 0, lines))

\* lines.join("\n").replace(/\n{3,}/g, "\n\n").trim()
CleanUp(lines) ==
    Trim(CollapseNewlines(Join(lines, <<NL>>)))

SourcePrefix(href) == <<"Source:", " ">> \o href \o <<NL, NL>>

PrependSource_NoBlankLine(text, href) == <<"Source:", " ">> \o href \o <<NL>> \o text

\* text = "Source: " + window.location.href + "\n\n" + text
PrependSource(text, href) ==
    <<"Source:", " ">> \o href \o <<NL, NL>> \o text

\* what one call leaves behind: the returned text, the content root, the clone and
\* its nodes as the walk saw them (a clone's node is base + the place of its
\* original among the root and its descendants), and lines.join("\n")
NoExtraction ==
    [called |-> FALSE, text |-> <<>>, root |-> NoNode, clone |-> NoNode, base |-> 0,
     cloned |-> <<>>, joined |-> <<>>]

ExtractPageText(h, href) ==
    LET root == QueryRoot(h) IN
    IF root = NoNode
    THEN [heap |-> h, out |-> [NoExtraction EXCEPT !.called = TRUE]]
    ELSE LET c == CloneNode(h, root)
             clone == c.id
             h1 == RevealPhase(c.h, clone)
             h2 == StripPhase(h1, clone)
             lines == WalkTopLevel(h2, Children(h2, clone), TitleLines(h2))
             text == PrependSource(CleanUp(lines), href)
         IN [heap |-> h2,
             out |-> [called |-> TRUE, text |-> text, root |-> root, clone |-> clone,
                      base |-> MaxId(h),
                      cloned |-> <<clone>> \o Descendants(h2, clone),
                      joined |-> Join(lines, <<NL>>)]]


\* ------------------------------------------------------------------ pages

\* document.createElement / appendChild: the tree t (a node record whose kids are
\* trees) is added to heap h under parent
RECURSIVE AddTree(_, _, _), AddKids(_, _, _)
AddTree(h, parent, t) ==
    LET n == MaxId(h) + 1
        h1 == h @@ (n :> [t EXCEPT !.kids = <<>>])
        h2 == IF parent = NoNode THEN h1 ELSE [h1 EXCEPT ![parent].kids = Append(@, n)]
    IN AddKids(h2, n, t.kids)
AddKids(h, parent, ts) ==
    IF ts = <<>> THEN h ELSE AddKids(AddTree(h, parent, Head(ts)), parent, Tail(ts))

El(tag, kids) == [Element(tag) EXCEPT !.kids = kids]

Txt(data) == TextNode(data)

\* the page whose body holds the trees ts
Page(ts) == AddTree(<<>>, NoNode, El("body", ts))

\* window.location.href
Location == <<"https://docs.example.com/quickstart">>

MaxDepth == 2

MaxBlocks == 2

H1 == El("h1", <<Txt(<<" ", "T", " ">>)>>)

Para == El("p", <<Txt(<<"x">>)>>)

\* containers a page puts around its content
WrapKinds ==
    {"div", "tabpanel", "hidden", "nav", "header", "footer", "button", "svg",
     "sr-only", "toc", "wrapper", "table"}

Wrap(kind, kids) ==
    CASE kind = "div" -> El("div", kids)
      [] kind = "tabpanel" -> [El("div", kids) EXCEPT !.role = "tabpanel", !.ariaHidden = "true",
                                                      !.hidden = TRUE, !.display = TRUE]
      [] kind = "hidden" -> [El("div", kids) EXCEPT !.ariaHidden = "true"]
      [] kind = "sr-only" -> [El("span", kids) EXCEPT !.classList = {"sr-only"}]
      [] kind = "toc" -> [El("div", kids) EXCEPT !.testid = "table-of-contents"]
      [] kind = "wrapper" -> [El("div", kids) EXCEPT !.classList = {"copy-for-llm-btn-wrapper"}]
      [] kind = "table" -> El("table", <<El("caption", kids),
                                         El("tr", <<El("td", <<Txt(<<"c">>)>>)>>)>>)
      [] OTHER -> El(kind, kids)

RECURSIVE WrapChain(_, _)
WrapChain(kinds, t) ==
    IF kinds = <<>> THEN t ELSE Wrap(Head(kinds), <<WrapChain(Tail(kinds), t)>>)

LeafKinds == {"pre-code", "pre-hidden", "pre-plain", "span"}

Leaf(kind) ==
    CASE kind = "pre-code" ->
           El("pre", <<[El("code", <<Txt(<<"K", NL>>)>>) EXCEPT !.classList = {"language-python"}]>>)
      [] kind = "pre-hidden" ->
           [El("pre", <<El("code", <<Txt(<<"K">>)>>)>>) EXCEPT !.ariaHidden = "true"]
      [] kind = "pre-plain" -> El("pre", <<Txt(<<NL, "K", NL, NL, NL, "K", " ">>)>>)
      [] OTHER -> El("span", <<Txt(<<"x">>)>>)

Chains == UNION {[1..n -> WrapKinds] : n \in 0..MaxDepth}

\* a decorative element hidden from assistive technology
Decoration == [El("span", <<Txt(<<"d">>)>>) EXCEPT !.ariaHidden = "true"]

\* an article whose content sits inside a chain of containers
NestedPages ==
    {Page(<<El("article", <<WrapChain(c, Leaf(l)), Decoration, Para>>)>>) :
         c \in Chains, l \in LeafKinds}

RootKinds == {"none", "article", "content-area", "main", "main-article", "hidden-main"}

TitlePlaces == {"none", "child", "nested", "outside", "stripped"}

RootTree(kind, kids) ==
    CASE kind = "article" -> El("article", kids)
      [] kind = "content-area" -> [El("div", kids) EXCEPT !.id = "content-area"]
      [] kind = "main" -> El("main", kids)
      [] kind = "main-article" -> El("main", <<El("nav", <<>>), El("article", kids)>>)
      [] kind = "hidden-main" -> [El("main", kids) EXCEPT !.ariaHidden = "true"]
      [] OTHER -> El("div", kids)

\* pages that differ in their content root and in where the h1 sits
RootPage(kind, place) ==
    Page((IF place = "outside" THEN <<H1>> ELSE <<>>)
         \o <<RootTree(kind, (IF place = "child" THEN <<H1>> ELSE <<>>)
                             \o (IF place = "nested" THEN <<El("div", <<H1>>)>> ELSE <<>>)
                             \o (IF place = "stripped" THEN <<El("header", <<H1>>)>> ELSE <<>>)
                             \o <<Para>>)>>)

RootPages == {RootPage(k, pl) : k \in RootKinds, pl \in TitlePlaces}

BlockKinds ==
    {"empty-p", "p", "h2", "h4", "newlines", "blank", "pre", "code", "ol", "ul", "table",
     "blockquote", "strong", "a", "a-nohref"}

Block(kind) ==
    CASE kind = "empty-p" -> El("p", <<>>)
      [] kind = "p" -> El("p", <<Txt(<<"x">>), El("b", <<Txt(<<"y">>)>>)>>)
      [] kind = "h2" -> El("h2", <<Txt(<<"y">>)>>)
      [] kind = "h4" -> El("h4", <<El("span", <<Txt(<<" ", "y">>)>>)>>)
      [] kind = "newlines" -> El("div", <<Txt(<<NL, NL, NL, "z", NL, NL, NL, NL>>)>>)
      [] kind = "blank" -> El("div", <<Txt(<<NL, " ", NL>>)>>)
      [] kind = "pre" -> Leaf("pre-code")
      [] kind = "code" -> El("div", <<El("code", <<Txt(<<"c">>)>>)>>)
      [] kind = "ol" -> El("ol", <<El("li", <<Txt(<<"a">>)>>), Txt(<<NL>>),
                                   El("li", <<El("p", <<Txt(<<"b">>)>>)>>)>>)
      [] kind = "ul" -> El("ul", <<El("li", <<Txt(<<"a">>)>>)>>)
      [] kind = "table" ->
           El("table", <<El("tr", <<El("th", <<Txt(<<"A">>)>>), El("th", <<Txt(<<"B">>)>>)>>),
                         El("tr", <<El("td", <<Txt(<<"1">>)>>), El("td", <<Txt(<<"2">>)>>)>>)>>)
      [] kind = "blockquote" -> El("blockquote", <<Txt(<<"a", NL, "b", NL>>)>>)
      [] kind = "strong" -> El("div", <<El("strong", <<Txt(<<"s">>)>>)>>)
      [] kind = "a" -> El("div", <<[El("a", <<Txt(<<"l">>)>>) EXCEPT !.href = <<"/x">>]>>)
      [] OTHER -> El("div", <<El("a", <<Txt(<<"l">>)>>)>>)

BlockSeqs == UNION {[1..n -> BlockKinds] : n \in 0..MaxBlocks}

\* an article made of a sequence of blocks, with a first-level heading
BlockPages ==
    {Page(<<El("article", <<H1>> \o [i \in DOMAIN bs |-> Block(bs[i])])>>) : bs \in BlockSeqs}

Pages == NestedPages \cup RootPages \cup BlockPages

\* what is reachable from the document: nodes of a discarded clone are garbage
Live(h) ==
    [n \in {DocRoot} \cup Range(Descendants(h, DocRoot)) |-> h[n]]

\* ------------------------------------------------------------------ state

\* the texts of the button's <span>
Idle == "Copy for LLM"

Copied == "Copied!"

NoContent == "Nothing to copy"

\* the delay of every setTimeout, in ms
DELAY == 2000

\* the clock advances in steps of half the delay
TickMs == DELAY \div 2

MaxClicks == 2

MaxNavs == 1

MaxTime == 2000

\* pages the host shows while the button is in use
UIPages ==
    {RootPage("none", "child"), RootPage("article", "child")}

VARIABLES
    dom,              \* the live document
    readyState,       \* document.readyState: "loading" or "complete"
    clipboardApi,     \* whether navigator.clipboard exists
    attached,         \* the buttons (elements with id BUTTON_ID) in the document
    label,            \* label[b]: the text of button b's span; one entry per button created
    timers,           \* the pending setTimeout callbacks, in the order they were set
    now,              \* the time in ms
    pending,          \* the clipboard writes whose promise is not settled
    clipboard,        \* the text on the system clipboard
    textareas,        \* the temporary text fields attached to the body
    observerPending,  \* mutation records are queued for the observer
    ext,              \* what the last call of extractPageText left behind
    entered,          \* entered[b]: when button b's label last changed to its present text
    writes,           \* calls of navigator.clipboard.writeText
    fallbacks,        \* runs of the textarea fallback
    failures,         \* primary clipboard writes that failed
    errors,           \* exceptions that left a handler
    clicks,           \* clicks so far
    navs              \* host re-renders so far

vars ==
    <<dom, readyState, clipboardApi, attached, label, timers, now, pending, clipboard,
      textareas, observerPending, ext, entered, writes, fallbacks,
      failures, errors, clicks, navs>>

CreateButton_NoGuard ==
    /\ attached' = attached \cup {Len(label) + 1}
    /\ label' = Append(label, Idle)
    /\ entered' = Append(entered, now)

\* createButton(): a new button in a new wrapper, unless one is in the document
CreateButton ==
    IF attached # {}
    THEN UNCHANGED <<attached, label, entered>>
    ELSE /\ attached' = {Len(label) + 1}
         /\ label' = Append(label, Idle)
         /\ entered' = Append(entered, now)

\* btn.querySelector("span").textContent = text, and setTimeout(reset, 2000)
ShowFor(b, text) ==
    /\ label' = [label EXCEPT ![b] = text]
    /\ entered' = [entered EXCEPT ![b] = IF label[b] = text THEN @ ELSE now]
    /\ timers' = Append(timers, [btn |-> b, due |-> now + DELAY])
    /\ observerPending' = (observerPending \/ b \in attached)

NothingToCopy_Inverted(text) == text # <<>>

\* if (!text)
NothingToCopy(text) ==
    text = <<>>

\* the click handler of button b, up to the call of writeText
Click(b) ==
    /\ b \in attached
    /\ ~observerPending
    /\ clicks < MaxClicks
    /\ clicks' = clicks + 1
    /\ LET r == ExtractPageText(dom, Location) IN
         /\ dom' = Live(r.heap)
         /\ ext' = r.out
         /\ IF NothingToCopy(r.out.text)
            THEN /\ ShowFor(b, NoContent)
                 /\ UNCHANGED <<pending, writes, failures, errors>>
            ELSE IF clipboardApi = "unavailable"
            THEN \* navigator.clipboard is undefined: .writeText throws a TypeError
                 /\ errors' = errors + 1
                 /\ failures' = failures + 1
                 /\ UNCHANGED <<label, entered, timers, observerPending, pending, writes>>
            ELSE /\ writes' = writes + 1
                 /\ pending' = Append(pending, [btn |-> b, text |-> r.out.text])
                 /\ UNCHANGED <<label, entered, timers, observerPending, failures, errors>>
    /\ UNCHANGED <<readyState, clipboardApi, attached, now, clipboard, textareas,
                   fallbacks, navs>>

RemoveAt(s, i) == SubSeq(s, 1, i - 1) \o SubSeq(s, i + 1, Len(s))

\* the promise of writeText is fulfilled: the .then callback
WriteFulfilled(i) ==
    /\ i \in DOMAIN pending
    /\ ~observerPending
    /\ clipboard' = pending[i].text
    /\ ShowFor(pending[i].btn, Copied)
    /\ pending' = RemoveAt(pending, i)
    /\ UNCHANGED <<dom, readyState, clipboardApi, attached, now, textareas, 
                   ext, writes, fallbacks, failures, errors, clicks, navs>>

\* the promise of writeText is rejected: the .catch callback, the textarea fallback
WriteRejected(i) ==
    /\ i \in DOMAIN pending
    /\ ~observerPending
    /\ failures' = failures + 1
    /\ fallbacks' = fallbacks + 1
    /\ textareas' = (textareas + 1) - 1
    /\ clipboard' = pending[i].text
    /\ label' = [label EXCEPT ![pending[i].btn] = Copied]
    /\ entered' = [entered EXCEPT ![pending[i].btn] = IF label[pending[i].btn] = Copied THEN @ ELSE now]
    /\ timers' = Append(timers, [btn |-> pending[i].btn, due |-> now + DELAY])
    /\ observerPending' = TRUE
    /\ pending' = RemoveAt(pending, i)
    /\ UNCHANGED <<dom, readyState, clipboardApi, attached, now, 
                   ext, writes, errors, clicks, navs>>

\* the oldest setTimeout callback runs: the label goes back to "Copy for LLM"
TimerFires ==
    /\ timers # <<>>
    /\ ~observerPending
    /\ Head(timers).due <= now
    /\ label' = [label EXCEPT ![Head(timers).btn] = Idle]
    /\ entered' = [entered EXCEPT ![Head(timers).btn] =
                       IF label[Head(timers).btn] = Idle THEN @ ELSE now]
    /\ timers' = Tail(timers)
    /\ observerPending' = (Head(timers).btn \in attached)
    /\ UNCHANGED <<dom, readyState, clipboardApi, attached, now, pending, clipboard,
                   textareas, ext, writes, fallbacks, failures, errors,
                   clicks, navs>>

\* time passes; a timer that is due runs first
Tick ==
    /\ ~observerPending
    /\ now + TickMs <= MaxTime
    /\ IF timers = <<>> THEN TRUE ELSE Head(timers).due > now
    /\ now' = now + TickMs
    /\ UNCHANGED <<dom, readyState, clipboardApi, attached, label, timers, pending,
                   clipboard, textareas, observerPending, ext, entered,
                   writes, fallbacks, failures, errors, clicks, navs>>

\* the host re-renders the body subtree (a client-side navigation); the button's
\* wrapper may go with the old content
HostRender(page, removesButton) ==
    /\ ~observerPending
    /\ navs < MaxNavs
    /\ navs' = navs + 1
    /\ dom' = page
    /\ attached' = IF removesButton THEN {} ELSE attached
    /\ observerPending' = TRUE
    /\ UNCHANGED <<readyState, clipboardApi, label, timers, now, pending, clipboard,
                   textareas, ext, entered, writes, fallbacks, failures,
                   errors, clicks>>

\* the MutationObserver callback: createButton()
ObserverCallback ==
    /\ observerPending
    /\ CreateButton
    /\ observerPending' = (attached' # attached)
    /\ UNCHANGED <<dom, readyState, clipboardApi, timers, now, pending, clipboard,
                   textareas, ext, writes, fallbacks, failures, errors, clicks, navs>>

\* DOMContentLoaded, for a script that ran while the document was loading
DOMContentLoaded ==
    /\ readyState = "loading"
    /\ ~observerPending
    /\ readyState' = "complete"
    /\ CreateButton
    /\ observerPending' = (attached' # attached)
    /\ UNCHANGED <<dom, clipboardApi, timers, now, pending, clipboard, textareas,
                   ext, writes, fallbacks, failures, errors, clicks, navs>>

\* the state the script leaves when it has run: the button is there unless the
\* document is still loading, and the observer watches the body
InitWith(pages, states) ==
    /\ dom \in pages
    /\ readyState \in states
    /\ clipboardApi \in {"available", "unavailable"}
    /\ attached = IF readyState = "loading" THEN {} ELSE {1}
    /\ label = IF readyState = "loading" THEN <<>> ELSE <<Idle>>
    /\ entered = IF readyState = "loading" THEN <<>> ELSE <<0>>
    /\ timers = <<>>
    /\ now = 0
    /\ pending = <<>>
    /\ clipboard = <<>>
    /\ textareas = 0
    /\ observerPending = FALSE
    /\ ext = NoExtraction
    /\ writes = 0
    /\ fallbacks = 0
    /\ failures = 0
    /\ errors = 0
    /\ clicks = 0
    /\ navs = 0

Init == InitWith(UIPages, {"loading", "complete"})

Next ==
    \/ \E b \in attached : Click(b)
    \/ \E i \in DOMAIN pending : WriteFulfilled(i)
    \/ \E i \in DOMAIN pending : WriteRejected(i)
    \/ TimerFires
    \/ Tick
    \/ \E page \in UIPages, removesButton \in BOOLEAN : HostRender(page, removesButton)
    \/ ObserverCallback
    \/ DOMContentLoaded

Spec == Init /\ [][Next]_vars

\* one click on each page of a large family: every call of extractPageText
ExtractInit == InitWith(Pages, {"complete"})

ExtractNext == clicks = 0 /\ \E b \in attached : Click(b)

ExtractSpec == ExtractInit /\ [][ExtractNext]_vars


\* ------------------------------------------------------------------ properties

HasPrefix(s, pre) == Len(s) >= Len(pre) /\ SubSeq(s, 1, Len(pre)) = pre

Occurs(part, s) == \E i \in 0..(Len(s) - Len(part)) : SubSeq(s, i + 1, i + Len(part)) = part

Count(c, s) == Cardinality({i \in DOMAIN s : s[i] = c})

HasNewlineRun(s, n) == Occurs(Repeat(NL, n), s)

\* the page has an <article>, an element with id "content-area" or a <main>
HasContentRoot ==
    \E n \in DOMAIN dom :
        IsElement(dom, n) /\ (dom[n].tag \in {"article", "main"} \/ dom[n].id = "content-area")

\* the root and its descendants, as cloneNode met them
RootNodes == <<ext.root>> \o Descendants(dom, ext.root)

\* the copy of node n of the content root is still in the clone after the strip phase
InClone(n) == (ext.base + IndexOf(RootNodes, n)) \in Range(ext.cloned)

\* the elements strictly between the root and n
AncestorsBelowRoot(n) ==
    {a \in Range(Descendants(dom, ext.root)) : n \in Range(Descendants(dom, a))}

IsHiddenOrPanel(a) == dom[a].ariaHidden = "true" \/ dom[a].role = "tabpanel"

\* n lies inside a tab panel or an aria-hidden element
InsideHidden(n) == \E a \in AncestorsBelowRoot(n) \cup {ext.root} : IsHiddenOrPanel(a)

\* n is, or lies inside, an element of the root that one of sels matches
InsideAny(n, sels) ==
    \E a \in AncestorsBelowRoot(n) \cup {n} : \E sel \in sels : Matches(dom, a, sel)

ChromeSelectors ==
    {"nav", "header", "footer", "button", "svg", ".sr-only", "[data-testid=table-of-contents]"}

PreBlocks == {n \in Range(Descendants(dom, ext.root)) : dom[n].tag = "pre"}

HiddenElements == {n \in Range(Descendants(dom, ext.root)) : dom[n].ariaHidden = "true"}

HoldsPre(n) == \E d \in Range(Descendants(dom, n)) : dom[d].tag = "pre"

\* the fenced block the output holds for the <pre> n: its language, and its code
\* with the blank lines inside it collapsed like everywhere else
FencedBlock(n) ==
    LET codeEl == QuerySelector(dom, n, "code")
    IN <<NL, Fence>> \o (IF codeEl = NoNode THEN <<>> ELSE LanguageOf(dom[codeEl].classList))
       \o <<NL>> \o CollapseNewlines(Trim(TextContent(dom, IF codeEl = NoNode THEN n ELSE codeEl)))
       \o <<NL, Fence>>

\* every element between the root and n is one the walk only recurses into
PlainlyNested(n) == \A a \in AncestorsBelowRoot(n) : dom[a].tag \in {"div", "span", "section"}

\* C1: on a page without <article>, #content-area and <main>, extractPageText
\* returns the empty string: no title line, no Source line.
C1_NoRootEmpty ==
    (ext.called /\ ~HasContentRoot) => ext.text = <<>>

C1_Witness ==
    /\ ext.called /\ ~HasContentRoot /\ ext.text = <<>>
    /\ \E n \in DOMAIN dom : dom[n].tag = "h1"

\* C2 as stated: whatever the page, the text returned begins with "Source: ", the
\* page URL and a blank line.
C2_AlwaysSource ==
    ext.called => HasPrefix(ext.text, SourcePrefix(Location))

\* C2 amended: on a page that has a content root, the text returned begins with
\* "Source: ", the page URL and a blank line.
C2_SourceWhenRoot ==
    (ext.called /\ HasContentRoot) => HasPrefix(ext.text, SourcePrefix(Location))

C2_Witness ==
    /\ ext.called /\ HasContentRoot
    /\ HasPrefix(ext.text, SourcePrefix(Location))
    /\ Len(ext.text) > Len(SourcePrefix(Location))

\* C3 as stated: every <pre> of the root inside a tab panel or an aria-hidden element,
\* and not inside nav, header, footer, button, svg, .sr-only or the table of contents,
\* is still in the clone after the strip phase, and its code is in the output;
\* aria-hidden elements that hold no <pre> and are no tab panels are removed.
C3_HiddenCodeKept ==
    (ext.called /\ ext.root # NoNode) =>
        /\ \A n \in PreBlocks :
               (InsideHidden(n) /\ ~InsideAny(n, ChromeSelectors)) =>
                   InClone(n) /\ Occurs(CollapseNewlines(Trim(TextContent(dom, n))), ext.text)
        /\ \A e \in HiddenElements :
               (~HoldsPre(e) /\ dom[e].role # "tabpanel") => ~InClone(e)

\* C3 amended: every <pre> of the root inside a tab panel or an aria-hidden element,
\* and neither itself nor inside a nav, header, footer, button, svg, .sr-only,
\* table-of-contents or .copy-for-llm-btn-wrapper element, is still in the clone after
\* the strip phase, and when only plain containers lie between it and the root, its
\* code is in the output as a fenced block; aria-hidden elements below the root that
\* neither are nor hold a <pre> and are no tab panels are removed.
C3_HiddenCodeKeptOutsideWrapper ==
    (ext.called /\ ext.root # NoNode) =>
        /\ \A n \in PreBlocks :
               (InsideHidden(n) /\ ~InsideAny(n, ChromeSelectors \cup {".copy-for-llm-btn-wrapper"})) =>
                   /\ InClone(n)
                   /\ PlainlyNested(n) => Occurs(FencedBlock(n), ext.text)
        /\ \A e \in HiddenElements :
               (~HoldsPre(e) /\ dom[e].tag # "pre" /\ dom[e].role # "tabpanel") => ~InClone(e)

\* a hidden panel's code came through while a hidden element without code was removed
C3_Witness ==
    /\ ext.called /\ ext.root # NoNode
    /\ \E e \in HiddenElements : ~HoldsPre(e) /\ dom[e].tag = "span" /\ ~InClone(e)
    /\ \E n \in PreBlocks :
           /\ \E a \in AncestorsBelowRoot(n) : dom[a].ariaHidden = "true" /\ dom[a].role = ""
           /\ \E a \in AncestorsBelowRoot(n) : dom[a].role = "tabpanel"
           /\ InClone(n)
           /\ Occurs(FencedBlock(n), ext.text)

\* C4: on a page with a content root, the title is written as "# <title>" and a blank
\* line right after the Source line, and its text is in the output exactly once,
\* wherever the <h1> sits.
C4_TitleOnce ==
    (ext.called /\ ext.root # NoNode /\ QueryTitle(dom) # NoNode) =>
        /\ HasPrefix(ext.text, SourcePrefix(Location) \o <<"#", " ", "T">>)
        /\ Count("T", ext.text) = 1

\* C5: the text returned never holds three or more "\n" in a row.
C5_NoTripleNewline ==
    ext.called => ~HasNewlineRun(ext.text, 3)

\* four or more blank lines in lines.join("\n") became one
C5_Witness ==
    /\ ext.called
    /\ HasNewlineRun(ext.joined, 5)
    /\ Occurs(<<"z", NL, NL>>, ext.text)

\* C6: a call of extractPageText leaves the live document as it was.
C6_LiveUntouched ==
    [][clicks' = clicks + 1 => dom' = dom]_vars

\* the call revealed and removed nodes of the clone
C6_Witness ==
    /\ ext.called /\ ext.root # NoNode
    /\ Len(ext.cloned) < Len(RootNodes)
    /\ \E n \in PreBlocks : InsideHidden(n) /\ InClone(n)


\* C7: every failed primary clipboard write (rejected, or no clipboard API) has had its
\* one run of the textarea fallback, no text field is left behind, and no write is
\* repeated.
C7_FallbackOnEveryFailure ==
    /\ fallbacks = failures
    /\ textareas = 0
    /\ writes <= clicks

\* C8: a click whose extraction returns "" shows "Nothing to copy", starts no clipboard
\* write and no fallback and raises no error; and a label turns to "Nothing to copy"
\* only on a page without content root.
C8_NothingToCopy ==
    [][/\ (clicks' = clicks + 1 /\ ext'.text = <<>>) =>
             /\ \A b \in attached : label'[b] = NoContent
             /\ pending' = pending /\ writes' = writes /\ fallbacks' = fallbacks
             /\ errors' = errors /\ clipboard' = clipboard /\ textareas' = textareas
       /\ \A b \in DOMAIN label :
             (label[b] # NoContent /\ label'[b] = NoContent) => ~HasContentRoot]_vars

C8_Witness ==
    /\ ext.called /\ ext.text = <<>>
    /\ \E b \in attached : label[b] = NoContent
    /\ clicks = 1 /\ writes = 0 /\ fallbacks = 0 /\ errors = 0

\* C9: a "Copied!" or "Nothing to copy" label goes back to "Copy for LLM" no sooner
\* than 2000 ms after the label changed to it, also when clicks overlap.
C9_RevertAfterDelay ==
    [][\A b \in DOMAIN label :
          (label[b] # Idle /\ label'[b] = Idle) => now >= entered[b] + DELAY]_vars

\* C10: there is never more than one button in the document, and once the observer
\* callback has run for the host's change of the page, there is exactly one.
C10_OneButton ==
    /\ Cardinality(attached) <= 1
    /\ (navs > 0 /\ ~observerPending) => Cardinality(attached) = 1

\* the host removed the button and the observer put a new one in
C10_Witness ==
    /\ navs > 0 /\ ~observerPending
    /\ attached = {2}

====
